---- MODULE Spec2Model ----
(***************************************************************************)
(* A model of preprocessing/automate_Farrel-Paksi-Aditya.py: the Titanic   *)
(* preprocessing pipeline load_data -> handle_missing_values ->            *)
(* feature_engineering -> encoding -> scaling -> save_data, run by main.   *)
(*                                                                         *)
(* A DataFrame is a record                                                 *)
(*     [index : the row labels, data : column name -> sequence of cells,   *)
(*      dtypes : column name -> "object" | "int64" | "float64"]            *)
(* A cell is NaN (absent) or Val(x), a one-element tuple holding x.        *)
(* Text is a string; a number is an integer.  Ages of the inputs are even  *)
(* integers, so that the mean of the two middle values (the median of an   *)
(* even count) is an integer as well.  A passenger's name is a sequence of *)
(* tokens, each a word of letters or one character that is no letter, so   *)
(* that the regular expression of feature_engineering can be run on it.    *)
(***************************************************************************)
EXTENDS Integers, Sequences, FiniteSets, TLC

VARIABLES pc, arg, df, exc, fs, path, stdout

vars == <<pc, arg, df, exc, fs, path, stdout>>

(***************************************************************************)
(* Bounds of the model.                                                    *)
(***************************************************************************)
MaxRows == 3

MaxRawRows == 2

MaxNameLen == 5

MaxDepth == 2

(***************************************************************************)
(* Cells, columns, frames.                                                 *)
(***************************************************************************)
NaN == <<>>

Val(x) == <<x>>

isna(c) == c = NaN

columns(t) == DOMAIN t.data

nrows(t) == Len(t.index)

RangeIndex(n) == [i \in 1..n |-> i - 1]

\* df[c] = s, with the dtype the new column gets
SetColumn(t, c, s, dt) ==
    [t EXCEPT !.data = (c :> s) @@ t.data, !.dtypes = (c :> dt) @@ t.dtypes]

\* df.drop(columns=cs)
drop(t, cs) ==
    [t EXCEPT !.data = [c \in columns(t) \ cs |-> t.data[c]],
              !.dtypes = [c \in columns(t) \ cs |-> t.dtypes[c]]]

\* the nominal schema: the dtypes read_csv gives the columns of the file
SchemaDtype ==
    [PassengerId |-> "int64", Survived |-> "int64", Pclass |-> "int64",
     Name |-> "object", Sex |-> "object", Age |-> "float64", SibSp |-> "int64",
     Parch |-> "int64", Ticket |-> "object", Fare |-> "float64",
     Cabin |-> "object", Embarked |-> "object"]

Frame(n, cs, full) ==
    [index |-> RangeIndex(n),
     data |-> [c \in cs |-> full[c]],
     dtypes |-> [c \in cs |-> SchemaDtype[c]]]

EmptyFrame == [index |-> <<>>, data |-> <<>>, dtypes |-> <<>>]

\* the positions 1..n that are in keep, in order
RECURSIVE Positions(_, _)
Positions(n, keep) ==
    IF n = 0 THEN <<>>
    ELSE IF n \in keep THEN Append(Positions(n - 1, keep), n)
         ELSE Positions(n - 1, keep)

Take(s, ps) == [k \in 1..Len(ps) |-> s[ps[k]]]

\* df.isnull().sum().sum()
isnull_sum(t) ==
    Cardinality({<<c, i>> \in columns(t) \X (1..nrows(t)) : isna(t.data[c][i])})

\* a mutant of dropna: how='all', which keeps a row unless all its cells are absent
dropna_all(t) ==
    LET keep == {i \in 1..nrows(t) : \E c \in columns(t) : ~isna(t.data[c][i])}
        ps == Positions(nrows(t), keep)
    IN  [t EXCEPT !.index = Take(t.index, ps),
                  !.data = [c \in columns(t) |-> Take(t.data[c], ps)]]

\* df.dropna(): the rows with no absent cell, their labels kept
dropna(t) ==
    LET keep == {i \in 1..nrows(t) : \A c \in columns(t) : ~isna(t.data[c][i])}
        ps == Positions(nrows(t), keep)
    IN  [t EXCEPT !.index = Take(t.index, ps),
                  !.data = [c \in columns(t) |-> Take(t.data[c], ps)]]

\* the present values of a column, in row order
present(s) == Take(s, Positions(Len(s), {i \in 1..Len(s) : ~isna(s[i])}))

\* Series.fillna(v): v is a cell; filling with NaN changes nothing
fillna(s, v) == [i \in 1..Len(s) |-> IF isna(s[i]) THEN v ELSE s[i]]

(***************************************************************************)
(* Series.median(): over the present values; NaN when there is none.       *)
(***************************************************************************)
RECURSIVE Insert(_, _)
Insert(s, x) ==
    IF s = <<>> THEN <<x>>
    ELSE IF x <= Head(s) THEN <<x>> \o s
         ELSE <<Head(s)>> \o Insert(Tail(s), x)

RECURSIVE SortInts(_)
SortInts(s) == IF s = <<>> THEN <<>> ELSE Insert(SortInts(Tail(s)), Head(s))

\* a mutant of median: the lower of the two middle values of an even count
median_low(s) ==
    LET p == present(s)
        v == SortInts([i \in 1..Len(p) |-> p[i][1]])
        n == Len(v)
    IN  IF n = 0 THEN NaN ELSE Val(v[(n + 1) \div 2])

median(s) ==
    LET p == present(s)
        v == SortInts([i \in 1..Len(p) |-> p[i][1]])
        n == Len(v)
    IN  IF n = 0 THEN NaN
        ELSE IF n % 2 = 1 THEN Val(v[(n + 1) \div 2])
             ELSE Val((v[n \div 2] + v[n \div 2 + 1]) \div 2)

(***************************************************************************)
(* The order of Python's str: by code point, upper case before lower.      *)
(* StrOrder lists every string of the model in that order.                 *)
(***************************************************************************)
StrOrder ==
    <<"A5", "C", "C85", "Master", "Miss", "Mr", "Mrs", "PC", "Q", "Rare", "S",
      "STON", "female", "male">>

StrRank(x) == CHOOSE i \in DOMAIN StrOrder : StrOrder[i] = x

StrLess(a, b) == StrRank(a) < StrRank(b)

\* Series.mode(): the most frequent present values, sorted
\* (a sequence; empty when no value is present)
count(s, x) == Cardinality({i \in 1..Len(s) : s[i] = Val(x)})

mode(s) ==
    LET vals == {s[i][1] : i \in {j \in 1..Len(s) : ~isna(s[j])}}
        top == {x \in vals : \A y \in vals : count(s, y) <= count(s, x)}
    IN  [k \in 1..Cardinality(top) |->
            CHOOSE x \in top : Cardinality({y \in top : StrLess(y, x)}) = k - 1]

(***************************************************************************)
(* handle_missing_values(df).  The result is [exc, df]: the exception      *)
(* raised ("None" when it returns) and the frame returned.                 *)
(***************************************************************************)
\* lines 39-41
hmv_age(t) ==
    IF "Age" \in columns(t)
    THEN SetColumn(t, "Age", fillna(t.data["Age"], median(t.data["Age"])),
                   t.dtypes["Age"])
    ELSE t

\* line 45: mode()[0] of a column with no present value raises KeyError
hmv_embarked_raises(t) ==
    "Embarked" \in columns(t) /\ Len(mode(t.data["Embarked"])) = 0

\* lines 44-46
hmv_embarked(t) ==
    IF "Embarked" \in columns(t)
    THEN SetColumn(t, "Embarked",
                   fillna(t.data["Embarked"], Val(mode(t.data["Embarked"])[1])),
                   t.dtypes["Embarked"])
    ELSE t

\* line 52: lambda x: 0 if pd.isna(x) else 1
hasCabin(c) == IF isna(c) THEN 0 ELSE 1

\* a mutant of line 54: the Cabin column is kept
hmv_cabin_keep(t) ==
    IF "Cabin" \in columns(t)
    THEN SetColumn(t, "hasCabin",
                   [i \in 1..nrows(t) |-> Val(hasCabin(t.data["Cabin"][i]))],
                   "int64")
    ELSE t

\* lines 50-54
hmv_cabin(t) ==
    IF "Cabin" \in columns(t)
    THEN drop(SetColumn(t, "hasCabin",
                        [i \in 1..nrows(t) |-> Val(hasCabin(t.data["Cabin"][i]))],
                        "int64"),
              {"Cabin"})
    ELSE t

\* lines 57-59
hmv_residual(t) == IF isnull_sum(t) > 0 THEN dropna(t) ELSE t

handle_missing_values(t) ==
    LET a == hmv_age(t)
    IN  IF hmv_embarked_raises(a)
        THEN [exc |-> "KeyError", df |-> t]
        ELSE [exc |-> "None", df |-> hmv_residual(hmv_cabin(hmv_embarked(a)))]

(***************************************************************************)
(* feature_engineering(df).                                                *)
(***************************************************************************)
\* the characters of the model's names that are no letters
Separators == {" ", ".", ",", "-"}

IsWord(tok) == tok \notin Separators

RECURSIVE Concat(_)
Concat(ws) == IF ws = <<>> THEN "" ELSE Head(ws) \o Concat(Tail(ws))

\* a match of ' ([A-Za-z]+)\.' that starts at token i and whose letters end at j
MatchAt(name, i, j) ==
    /\ name[i] = " "
    /\ i < j
    /\ j < Len(name)
    /\ \A k \in (i + 1)..j : IsWord(name[k])
    /\ name[j + 1] = "."

\* line 81: Series.str.extract(r' ([A-Za-z]+)\.', expand=False) on one cell:
\* the group of the leftmost match, NaN when nothing matches or the name is absent
extract(c) ==
    IF isna(c) THEN NaN
    ELSE LET name == c[1]
             ms == {m \in (1..Len(name)) \X (1..Len(name)) :
                      MatchAt(name, m[1], m[2])}
         IN  IF ms = {} THEN NaN
             ELSE LET m == CHOOSE x \in ms : \A y \in ms : x[1] <= y[1]
                  IN  Val(Concat(SubSeq(name, m[1] + 1, m[2])))

\* lines 84-93
title_mapping ==
    [Mr |-> "Mr",
     Miss |-> "Miss", Mlle |-> "Miss", Ms |-> "Miss",
     Mrs |-> "Mrs", Mme |-> "Mrs",
     Master |-> "Master",
     Dr |-> "Rare", Rev |-> "Rare", Col |-> "Rare", Major |-> "Rare",
     Lady |-> "Rare", Countess |-> "Rare", Jonkheer |-> "Rare",
     Don |-> "Rare", Dona |-> "Rare", Capt |-> "Rare", Sir |-> "Rare"]

\* Series.map(dict) on one cell: NaN for a key the dict lacks
map(c, d) == IF isna(c) \/ c[1] \notin DOMAIN d THEN NaN ELSE Val(d[c[1]])

\* a mutant of line 95: a title the mapping lacks is kept as it is
Title_unmapped(c) ==
    LET x == extract(c)
        m == map(x, title_mapping)
    IN  IF isna(m) THEN (IF isna(x) THEN Val("Rare") ELSE x) ELSE m

\* lines 81 and 95, on one cell of Name
Title(c) == fillna(<<map(extract(c), title_mapping)>>, Val("Rare"))[1]

\* lines 78-95
fe_title(t) ==
    IF "Name" \in columns(t)
    THEN SetColumn(t, "Title",
                   [i \in 1..nrows(t) |-> Title(t.data["Name"][i])], "object")
    ELSE t

\* the sum of number cells; NaN when one is absent
add(a, b) == IF isna(a) \/ isna(b) THEN NaN ELSE Val(a[1] + b[1])

\* lines 99-100
fe_family(t) ==
    IF "SibSp" \in columns(t) /\ "Parch" \in columns(t)
    THEN SetColumn(t, "FamilySize",
                   [i \in 1..nrows(t) |->
                      add(add(t.data["SibSp"][i], t.data["Parch"][i]), Val(1))],
                   "int64")
    ELSE t

\* line 107
cols_to_drop == <<"PassengerId", "Name", "Ticket">>

\* a mutant of lines 110-113: nothing is dropped unless all three are there
fe_drop_all_or_none(t) ==
    IF \A k \in 1..Len(cols_to_drop) : cols_to_drop[k] \in columns(t)
    THEN drop(t, {cols_to_drop[k] : k \in 1..Len(cols_to_drop)})
    ELSE t

\* lines 110-113
fe_drop(t) ==
    LET existing_cols_to_drop ==
            {cols_to_drop[k] : k \in {j \in 1..Len(cols_to_drop) :
                                        cols_to_drop[j] \in columns(t)}}
    IN  IF existing_cols_to_drop # {} THEN drop(t, existing_cols_to_drop) ELSE t

feature_engineering(t) == [exc |-> "None", df |-> fe_drop(fe_family(fe_title(t)))]

(***************************************************************************)
(* encoding(df).                                                           *)
(***************************************************************************)
\* line 133: df.select_dtypes(include=['object']).columns
cat_cols(t) == {c \in columns(t) : t.dtypes[c] = "object"}

\* a mutant of fit_transform: codes in the order of first appearance
fit_transform_by_appearance(s) ==
    LET first(x) == CHOOSE i \in 1..Len(s) : s[i] = Val(x) /\ \A j \in 1..(i - 1) : s[j] # Val(x)
        classes == {s[i][1] : i \in 1..Len(s)}
    IN  [i \in 1..Len(s) |->
            Val(Cardinality({y \in classes : first(y) < first(s[i][1])}))]

\* lines 135-136: LabelEncoder().fit_transform(column): classes_ is the sorted
\* distinct values, and a value's code is its place in classes_, from 0
fit_transform(s) ==
    LET classes == {s[i][1] : i \in 1..Len(s)}
    IN  [i \in 1..Len(s) |->
            Val(Cardinality({y \in classes : StrLess(y, s[i][1])}))]

\* lines 133-136
encoding(t) ==
    [exc |-> "None",
     df |-> [t EXCEPT
               !.data = [c \in columns(t) |->
                           IF c \in cat_cols(t) THEN fit_transform(t.data[c])
                           ELSE t.data[c]],
               !.dtypes = [c \in columns(t) |->
                             IF c \in cat_cols(t) THEN "int64" ELSE t.dtypes[c]]]]

(***************************************************************************)
(* scaling(df).  Real numbers are kept exact.  np.log1p(x) is ln(1 + x);   *)
(* the fares of the model are 2^k - 1, whose logarithm is k ln 2, and the  *)
(* Fare column holds k after the transform: it is in units of ln 2.  A     *)
(* standardised cell is Val([num, den, scale2]), the real number           *)
(* (num / den) / sqrt(scale2.num / scale2.den).                            *)
(***************************************************************************)
RECURSIVE Pow2(_)
Pow2(k) == IF k = 0 THEN 1 ELSE 2 * Pow2(k - 1)

\* line 160, on one cell
log1p(c) == IF isna(c) THEN NaN ELSE Val(CHOOSE k \in 0..c[1] : Pow2(k) = 1 + c[1])

RECURSIVE Sum(_)
Sum(s) == IF s = <<>> THEN 0 ELSE Head(s) + Sum(Tail(s))

Values(s) == [i \in 1..Len(s) |-> s[i][1]]

\* n times the deviation of each value from the mean: n x - sum
Deviations(s) == [i \in 1..Len(s) |-> Len(s) * s[i][1] - Sum(Values(s))]

Squares(v) == [i \in 1..Len(v) |-> v[i] * v[i]]

\* a mutant of the variance: the sample variance (ddof = 1)
variance_sample(s) ==
    LET n == Len(s)
    IN  [num |-> Sum(Squares(Deviations(s))), den |-> n * n * (IF n > 1 THEN n - 1 ELSE 1)]

\* StandardScaler.var_: the population variance, sum((x - mean)^2) / n
variance(s) ==
    LET n == Len(s)
    IN  [num |-> Sum(Squares(Deviations(s))), den |-> n * n * n]

\* StandardScaler.scale_ squared: the variance, and 1 for a variance of 0
scale2(s) == IF variance(s).num = 0 THEN [num |-> 1, den |-> 1] ELSE variance(s)

\* StandardScaler().fit_transform on one column: (x - mean) / scale_
standardize(s) ==
    [i \in 1..Len(s) |->
        Val([num |-> Deviations(s)[i], den |-> Len(s), scale2 |-> scale2(s)])]

\* lines 158-160
scaling_log(t) ==
    IF "Fare" \in columns(t)
    THEN SetColumn(t, "Fare",
                   [i \in 1..nrows(t) |-> log1p(t.data["Fare"][i])], "float64")
    ELSE t

\* line 164
num_cols == <<"Age", "Fare">>

\* line 167
valid_cols(t) == {num_cols[k] : k \in {j \in 1..Len(num_cols) : num_cols[j] \in columns(t)}}

\* lines 169-171: fit_transform raises ValueError on a frame of no rows
scaling(t) ==
    LET l == scaling_log(t)
    IN  IF valid_cols(l) = {} THEN [exc |-> "None", df |-> l]
        ELSE IF nrows(l) = 0 THEN [exc |-> "ValueError", df |-> t]
        ELSE [exc |-> "None",
              df |-> [l EXCEPT
                        !.data = [c \in columns(l) |->
                                    IF c \in valid_cols(l) THEN standardize(l.data[c])
                                    ELSE l.data[c]],
                        !.dtypes = [c \in columns(l) |->
                                      IF c \in valid_cols(l) THEN "float64"
                                      ELSE l.dtypes[c]]]]

(***************************************************************************)
(* The file system and the two functions that use it.  A path is the       *)
(* sequence of its components, relative to the working directory <<>>.     *)
(* fs.dirs is the set of directories, fs.files maps a file to its content. *)
(***************************************************************************)
\* line 7
RAW_DATA_PATH == <<"titanic_raw", "titanic.csv">>

\* line 8
OUTPUT_PATH == <<"preprocessing", "titanic_preprocessing.csv">>

\* os.path.dirname: '' (here <<>>) for a path of one component
dirname(p) == SubSeq(p, 1, Len(p) - 1)

\* line 16: os.path.exists
exists(f, p) == p \in f.dirs \/ p \in DOMAIN f.files

\* the number of records of a file: the length of its columns
records(content) ==
    IF DOMAIN content = {} THEN 0 ELSE Len(content[CHOOSE c \in DOMAIN content : TRUE])

\* pd.read_csv: the records of the file under a fresh RangeIndex
read_csv(content) ==
    [index |-> RangeIndex(records(content)),
     data |-> content,
     dtypes |-> [c \in DOMAIN content |-> SchemaDtype[c]]]

\* df.to_csv(path, index=False): the columns, without the index
to_csv(t) == t.data

\* lines 16-21
load_data(f, p) ==
    IF ~exists(f, p) THEN [exc |-> "FileNotFoundError", df |-> EmptyFrame]
    ELSE IF p \in f.dirs THEN [exc |-> "IsADirectoryError", df |-> EmptyFrame]
    ELSE [exc |-> "None", df |-> read_csv(f.files[p])]

Prefixes(d) == {SubSeq(d, 1, k) : k \in 1..Len(d)}

\* os.makedirs(d, exist_ok=True): '' is no directory name; a file may be in
\* the way
makedirs(f, d) ==
    IF d = <<>> THEN [exc |-> "FileNotFoundError", fs |-> f]
    ELSE IF d \in DOMAIN f.files THEN [exc |-> "FileExistsError", fs |-> f]
    ELSE IF \E q \in Prefixes(d) : q \in DOMAIN f.files
         THEN [exc |-> "NotADirectoryError", fs |-> f]
         ELSE [exc |-> "None", fs |-> [f EXCEPT !.dirs = f.dirs \cup Prefixes(d)]]

\* lines 183-185: what save_data raises and the file system it leaves
save_data(t, f, p) ==
    LET m == makedirs(f, dirname(p))
    IN  IF m.exc # "None" THEN m
        ELSE IF p \in m.fs.dirs THEN [exc |-> "IsADirectoryError", fs |-> m.fs]
        ELSE [exc |-> "None",
              fs |-> [m.fs EXCEPT !.files = (p :> to_csv(t)) @@ m.fs.files]]

(***************************************************************************)
(* The steps of main (lines 189-200).  pc names the stage about to run;    *)
(* a stage that raises leaves the try block for the except clause.  Each   *)
(* stage works on a copy (df = df.copy()), so the caller's frame, arg, is  *)
(* what it was.  stdout holds the progress lines printed so far: the name  *)
(* of each stage as it starts, "ok" as it ends, "[ERROR]" from the except  *)
(* clause.  Stage(name, next, e, d, f) runs a stage that raises e, or      *)
(* returns d when e is "None", and leaves the file system f.               *)
(***************************************************************************)
\* a mutant of the try block: an exception does not stop the pipeline
Stage_continue(name, next, e, d, f) ==
    /\ pc = name
    /\ arg' = df
    /\ df' = IF e = "None" THEN d ELSE df
    /\ exc' = "None"
    /\ pc' = next
    /\ stdout' = IF e = "None" THEN stdout \o <<name, "ok">>
                 ELSE stdout \o <<name, "[ERROR]">>
    /\ fs' = f
    /\ UNCHANGED path

Stage(name, next, e, d, f) ==
    /\ pc = name
    /\ arg' = df
    /\ IF e = "None"
       THEN /\ df' = d
            /\ exc' = "None"
            /\ pc' = next
            /\ stdout' = stdout \o <<name, "ok">>
       ELSE /\ df' = df
            /\ exc' = e
            /\ pc' = "except"
            /\ stdout' = Append(stdout, name)
    /\ fs' = f
    /\ UNCHANGED path

\* line 192
Step_load_data ==
    LET r == load_data(fs, RAW_DATA_PATH)
    IN  Stage("load_data", "handle_missing_values", r.exc, r.df, fs)

\* line 193
Step_handle_missing_values ==
    LET r == handle_missing_values(df)
    IN  Stage("handle_missing_values", "feature_engineering", r.exc, r.df, fs)

\* line 194
Step_feature_engineering ==
    LET r == feature_engineering(df)
    IN  Stage("feature_engineering", "encoding", r.exc, r.df, fs)

\* line 195
Step_encoding ==
    LET r == encoding(df)
    IN  Stage("encoding", "scaling", r.exc, r.df, fs)

\* line 196
Step_scaling ==
    LET r == scaling(df)
    IN  Stage("scaling", "save_data", r.exc, r.df, fs)

\* line 197: save_data returns nothing, df stays
Step_save_data ==
    LET r == save_data(df, fs, path)
    IN  Stage("save_data", "done", r.exc, df, r.fs)

\* lines 199-200: the error is printed and main returns
Step_except ==
    /\ pc = "except"
    /\ pc' = "done"
    /\ exc' = "None"
    /\ stdout' = Append(stdout, "[ERROR]")
    /\ UNCHANGED <<arg, df, fs, path>>

(***************************************************************************)
(* main on a raw file.  The file, when there is one, holds up to           *)
(* MaxRawRows of the three passengers below, in any order and number, and  *)
(* any of the columns of the schema beside Survived, Pclass and Sex.       *)
(***************************************************************************)
Braund ==
    [PassengerId |-> Val(1), Survived |-> Val(0), Pclass |-> Val(3),
     Name |-> Val(<<"Braund", ",", " ", "Mr", ".", " ", "Owen">>),
     Sex |-> Val("male"), Age |-> Val(22), SibSp |-> Val(1), Parch |-> Val(0),
     Ticket |-> Val("A5"), Fare |-> Val(7), Cabin |-> NaN, Embarked |-> Val("S")]

Cumings ==
    [PassengerId |-> Val(2), Survived |-> Val(1), Pclass |-> Val(1),
     Name |-> Val(<<"Cumings", ",", " ", "Mrs", ".", " ", "John">>),
     Sex |-> Val("female"), Age |-> NaN, SibSp |-> Val(1), Parch |-> Val(0),
     Ticket |-> Val("PC"), Fare |-> Val(63), Cabin |-> Val("C85"), Embarked |-> NaN]

Heikkinen ==
    [PassengerId |-> Val(3), Survived |-> Val(1), Pclass |-> Val(3),
     Name |-> Val(<<"Heikkinen", ",", " ", "Miss", ".", " ", "Laina">>),
     Sex |-> Val("female"), Age |-> Val(26), SibSp |-> Val(0), Parch |-> Val(0),
     Ticket |-> Val("STON"), Fare |-> NaN, Cabin |-> NaN, Embarked |-> Val("S")]

Passengers == <<Braund, Cumings, Heikkinen>>

AlwaysColumns == {"Survived", "Pclass", "Sex"}

OptionalColumns ==
    {"PassengerId", "Name", "Age", "SibSp", "Parch", "Ticket", "Fare", "Cabin",
     "Embarked"}

\* the content of a raw file: the passengers ps, the columns cs
RawContent(ps, cs) == [c \in cs |-> [i \in 1..Len(ps) |-> Passengers[ps[i]][c]]]

NoFiles == [dirs |-> {<<>>}, files |-> <<>>]

Init ==
    /\ pc = "load_data"
    /\ df = EmptyFrame
    /\ arg = EmptyFrame
    /\ exc = "None"
    /\ path = OUTPUT_PATH
    /\ stdout = <<>>
    /\ \E outdir \in SUBSET {dirname(OUTPUT_PATH)} :
         \/ fs = [dirs |-> {<<>>} \cup outdir, files |-> <<>>]
         \/ \E n \in 0..MaxRawRows, opt \in SUBSET OptionalColumns :
              \E ps \in [1..n -> DOMAIN Passengers] :
                 fs = [dirs |-> {<<>>, dirname(RAW_DATA_PATH)} \cup outdir,
                       files |-> (RAW_DATA_PATH :> RawContent(ps, AlwaysColumns \cup opt))]

Next ==
    \/ Step_load_data
    \/ Step_handle_missing_values
    \/ Step_feature_engineering
    \/ Step_encoding
    \/ Step_scaling
    \/ Step_save_data
    \/ Step_except

Spec == Init /\ [][Next]_vars

(***************************************************************************)
(* handle_missing_values on its own: every frame of up to MaxRows rows     *)
(* with a Fare column and any of Age, Embarked, Cabin.  Any cell may be    *)
(* absent.  Either the ages vary (two values, one port) or the ports do    *)
(* (two values, one age): the two columns are imputed independently.       *)
(***************************************************************************)
\* the cells a column of n rows may hold, when the column is one of cs
Cells(c, cs, n, S) == IF c \in cs THEN [1..n -> S] ELSE {<<>>}

AgeCells(wide) == IF wide = "Age" THEN {NaN, Val(2), Val(4)} ELSE {NaN, Val(2)}

EmbarkedCells(wide) ==
    IF wide = "Embarked" THEN {NaN, Val("C"), Val("S")} ELSE {NaN, Val("S")}

CabinCells == {NaN, Val("C85")}

FareCells == {NaN, Val(7)}

\* a call of one stage on the frame df, outside main
Call(stage) ==
    /\ pc = stage
    /\ arg = EmptyFrame
    /\ exc = "None"
    /\ fs = NoFiles
    /\ path = OUTPUT_PATH
    /\ stdout = <<>>

InitMV ==
    /\ Call("handle_missing_values")
    /\ \E n \in 0..MaxRows, opt \in SUBSET {"Age", "Embarked", "Cabin"},
          wide \in {"Age", "Embarked"} :
         LET cs == opt \cup {"Fare"} IN
         \E age \in Cells("Age", cs, n, AgeCells(wide)),
            emb \in Cells("Embarked", cs, n, EmbarkedCells(wide)),
            cab \in Cells("Cabin", cs, n, CabinCells),
            fare \in Cells("Fare", cs, n, FareCells) :
              df = Frame(n, cs, [Age |-> age, Embarked |-> emb,
                                 Cabin |-> cab, Fare |-> fare])

SpecMV == InitMV /\ [][Step_handle_missing_values]_vars

(***************************************************************************)
(* feature_engineering on its own: a frame of two rows; the first name is  *)
(* any sequence of up to MaxNameLen tokens among a space, a period, a      *)
(* comma, "Mr" and one more word, the second is Braund's or absent.        *)
(***************************************************************************)
TitleWords ==
    {"Mr", "Miss", "Mlle", "Ms", "Mrs", "Mme", "Master", "Dr", "Rev", "Col",
     "Major", "Lady", "Countess", "Jonkheer", "Don", "Dona", "Capt", "Sir",
     "Mister", "Braund", "s"}

NameTokens(w) == {" ", ".", ",", "Mr", w}

InitFE ==
    /\ Call("feature_engineering")
    /\ \E w \in TitleWords, len \in 0..MaxNameLen, second \in {NaN, Braund.Name} :
         \E name \in [1..len -> NameTokens(w)] :
            df = Frame(2, {"Name", "Sex"},
                       [Name |-> <<Val(name), second>>,
                        Sex |-> <<Val("male"), Val("female")>>])

SpecFE == InitFE /\ [][Step_feature_engineering]_vars

(***************************************************************************)
(* encoding on its own: every frame of up to MaxRows rows with a Pclass    *)
(* column and any of the text columns Sex and Embarked, no cell absent.    *)
(***************************************************************************)
InitEnc ==
    /\ Call("encoding")
    /\ \E n \in 0..MaxRows, opt \in SUBSET {"Sex", "Embarked"} :
         LET cs == opt \cup {"Pclass"} IN
         \E sex \in Cells("Sex", cs, n, {Val("male"), Val("female")}),
            emb \in Cells("Embarked", cs, n, {Val("S"), Val("C"), Val("Q")}),
            cls \in Cells("Pclass", cs, n, {Val(1), Val(3)}) :
              df = Frame(n, cs, [Sex |-> sex, Embarked |-> emb, Pclass |-> cls])

SpecEnc == InitEnc /\ [][Step_encoding]_vars

(***************************************************************************)
(* scaling on its own: every frame of up to MaxRows rows with a Pclass     *)
(* column and any of Age and Fare, no cell absent.                         *)
(***************************************************************************)
InitScale ==
    /\ Call("scaling")
    /\ \E n \in 0..MaxRows, opt \in SUBSET {"Age", "Fare"} :
         LET cs == opt \cup {"Pclass"} IN
         \E age \in Cells("Age", cs, n, {Val(2), Val(4), Val(22)}),
            fare \in Cells("Fare", cs, n, {Val(0), Val(1), Val(7)}),
            cls \in Cells("Pclass", cs, n, {Val(3)}) :
              df = Frame(n, cs, [Age |-> age, Fare |-> fare, Pclass |-> cls])

SpecScale == InitScale /\ [][Step_scaling]_vars

(***************************************************************************)
(* save_data on its own: a path of up to MaxDepth components, in a file    *)
(* system whose directories and files lie no deeper.                       *)
(***************************************************************************)
PathNames == {"out", "data.csv"}

Paths(k) == UNION {[1..len -> PathNames] : len \in 1..k}

OldContent == [Pclass |-> <<Val(1)>>]

InitSave ==
    /\ pc = "save_data"
    /\ arg = EmptyFrame
    /\ exc = "None"
    /\ stdout = <<>>
    /\ \E n \in 0..MaxRows : df = Frame(n, {"Pclass"}, [Pclass |-> [i \in 1..n |-> Val(3)]])
    /\ path \in Paths(MaxDepth)
    /\ \E ds \in SUBSET Paths(MaxDepth - 1),
          fl \in {{}} \cup {{f} : f \in Paths(MaxDepth)} :
         /\ \A d \in ds : dirname(d) \in ds \cup {<<>>}
         /\ \A f \in fl : f \notin ds /\ dirname(f) \in ds \cup {<<>>}
         /\ fs = [dirs |-> ds \cup {<<>>}, files |-> [f \in fl |-> OldContent]]

SpecSave == InitSave /\ [][Step_save_data]_vars

(***************************************************************************)
(* The claims about handle_missing_values, under SpecMV.  The call has     *)
(* returned when pc is "feature_engineering"; arg is the frame it was      *)
(* given and df the frame it returned.                                     *)
(***************************************************************************)
Returned(next) == pc = next /\ exc = "None"

\* the row of arg that the row k of df comes from: the one with its label
Origin(k) == CHOOSE i \in 1..nrows(arg) : arg.index[i] = df.index[k]

\* C1: the frame handle_missing_values returns has no absent cell, in any
\* column of any row
C1_NoResidualAbsence ==
    Returned("feature_engineering") =>
        \A c \in columns(df) : \A i \in 1..nrows(df) : ~isna(df.data[c][i])

\* C1, witness: a call that imputed an Age, replaced Cabin and dropped a row
\* for an absent Fare, and kept another row
C1_Witness ==
    /\ Returned("feature_engineering")
    /\ {"Age", "Embarked", "Cabin"} \subseteq columns(arg)
    /\ \E i \in 1..nrows(arg) : isna(arg.data["Age"][i]) /\ ~isna(arg.data["Fare"][i])
    /\ \E i \in 1..nrows(arg) : isna(arg.data["Fare"][i]) /\ ~isna(arg.data["Cabin"][i])
    /\ nrows(df) > 0
    /\ nrows(df) < nrows(arg)

\* C3: handle_missing_values raises nothing, whatever columns exist and
\* whatever cells are absent (stated of the frames that have a row)
C3_NeverRaises ==
    pc # "handle_missing_values" /\ nrows(arg) > 0 => Returned("feature_engineering")

\* the k-th smallest of the numbers vs (a sequence), by counting
OrderStatistic(vs, k) ==
    CHOOSE v \in {vs[i] : i \in 1..Len(vs)} :
        /\ Cardinality({i \in 1..Len(vs) : vs[i] < v}) < k
        /\ Cardinality({i \in 1..Len(vs) : vs[i] <= v}) >= k

\* twice the median of the present values of a column that has some
TwiceMedian(s) ==
    LET vs == Values(present(s))
        n == Len(vs)
    IN  IF n % 2 = 1 THEN 2 * OrderStatistic(vs, (n + 1) \div 2)
        ELSE OrderStatistic(vs, n \div 2) + OrderStatistic(vs, n \div 2 + 1)

HasPresent(s) == \E i \in 1..Len(s) : ~isna(s[i])

MostFrequent(s, x) ==
    /\ \E i \in 1..Len(s) : s[i] = Val(x)
    /\ \A j \in 1..Len(s) :
          isna(s[j]) \/
          Cardinality({i \in 1..Len(s) : s[i] = s[j]})
              <= Cardinality({i \in 1..Len(s) : s[i] = Val(x)})

Lookup(w) ==
    IF w = "Mr" THEN "Mr"
    ELSE IF w \in {"Miss", "Mlle", "Ms"} THEN "Miss"
    ELSE IF w \in {"Mrs", "Mme"} THEN "Mrs"
    ELSE IF w = "Master" THEN "Master"
    ELSE "Rare"

\* the lookup, for whatever line 81 extracts
C5_Lookup ==
    Returned("encoding") /\ "Name" \in columns(arg) =>
        /\ "Title" \in columns(df)
        /\ \A i \in 1..nrows(df) :
              LET x == extract(arg.data["Name"][i]) IN
              /\ df.data["Title"][i] \in
                    {Val("Mr"), Val("Miss"), Val("Mrs"), Val("Master"), Val("Rare")}
              /\ df.data["Title"][i] =
                    IF isna(x) THEN Val("Rare") ELSE Val(Lookup(x[1]))

\* C5, witness: "Braund, Mr." gives Mr, beside a name whose title, Mlle,
\* follows a first space that starts no match, and gives Miss
C5_Witness ==
    /\ Returned("encoding")
    /\ arg.data["Name"][1] = Val(<<" ", ",", " ", "Mlle", ".">>)
    /\ df.data["Title"][1] = Val("Miss")
    /\ arg.data["Name"][2] = Val(<<"Braund", ",", " ", "Mr", ".", " ", "Owen">>)
    /\ df.data["Title"][2] = Val("Mr")

\* cases of the extraction: a word with no space before it, or no period
\* after it, is no title; the letters of a title may span two tokens; the
\* leftmost match counts
C5_Extraction ==
    Returned("encoding") =>
        LET name == arg.data["Name"][1]
            title == df.data["Title"][1]
        IN  /\ name = Val(<<"Mrs", ".", " ", "Mr">>) => title = Val("Rare")
            /\ name = Val(<<" ", "Mr", "s", ".">>) => title = Val("Mrs")
            /\ name = Val(<<" ", "Mme", "Mme", ".">>) => title = Val("Rare")
            /\ name = Val(<<" ", "Mr", " ", "Mme", ".">>) => title = Val("Mrs")
            /\ name = Val(<<" ", "Dr", ".", " ", "Mr">>) => title = Val("Rare")
            /\ name = Val(<<"Braund", ",", " ", "Mr", ".">>) => title = Val("Mr")

\* C5: with a Name column, Title is in every row the lookup of the extracted
\* title, Rare for a title the table lacks and for a name that yields none;
\* so Title is one of Mr, Miss, Mrs, Master, Rare and never absent
C5_TitleLookup == C5_Lookup /\ C5_Extraction

Nums(s) == [i \in 1..Len(s) |-> s[i][1].num]

OneScale(s) ==
    \A i \in 1..Len(s) : s[i][1].den = s[1][1].den /\ s[i][1].scale2 = s[1][1].scale2

\* the mean of the column is 0
MeanIsZero(s) == OneScale(s) /\ Sum(Nums(s)) = 0

\* the population variance of a column of mean 0, sum(z^2) / n, is 1
StdIsOne(s) ==
    /\ OneScale(s)
    /\ Sum(Squares(Nums(s))) * s[1][1].scale2.den
          = Len(s) * s[1][1].den * s[1][1].den * s[1][1].scale2.num

Constant(s) == \A i, j \in 1..Len(s) : s[i] = s[j]

Scaled == {"Age", "Fare"} \cap columns(df)

Obstructed ==
    \/ path \in fs.dirs
    \/ \E q \in Prefixes(dirname(path)) : q \in DOMAIN fs.files

\* C8: for every output path, one of a single component included, save_data
\* leaves the parent directory of the path in place and the frame written to
\* the path (unless the file system is in the way)
C8_SaveWrites ==
    pc # "save_data" /\ ~Obstructed =>
        /\ Returned("done")
        /\ dirname(path) \in fs.dirs
        /\ path \in DOMAIN fs.files
        /\ fs.files[path] = to_csv(df)

\* what does hold: the same for every path of two components or more
C8_SaveWritesUnderDirectory ==
    pc # "save_data" /\ ~Obstructed /\ Len(path) > 1 =>
        /\ Returned("done")
        /\ Prefixes(dirname(path)) \subseteq fs.dirs
        /\ path \in DOMAIN fs.files
        /\ fs.files[path] = to_csv(df)

(***************************************************************************)
(* The claims about main, under Spec.  After a stage has returned, pc      *)
(* names the next one, arg is the frame the stage was given and df the     *)
(* frame it returned.                                                      *)
(***************************************************************************)
StageOrder ==
    <<"load_data", "handle_missing_values", "feature_engineering", "encoding",
      "scaling", "save_data">>

IsStage(x) == \E k \in 1..Len(StageOrder) : StageOrder[k] = x

\* the stages started so far, in the order they started
Started == SelectSeq(stdout, IsStage)

Last(s) == s[Len(s)]

Written == OUTPUT_PATH \in DOMAIN fs.files

\* C4: the stages start in the order load_data, handle_missing_values,
\* feature_engineering, encoding, scaling, save_data, each after the one
\* before it has returned; once a stage raises no later stage starts, the
\* error is printed and main returns without an exception in flight; the
\* output file is written only when every stage has returned
C4_Sequential ==
    /\ Started = SubSeq(StageOrder, 1, Len(Started))
    /\ \A i \in 2..Len(stdout) :
          /\ IsStage(stdout[i]) => stdout[i - 1] = "ok"
          /\ stdout[i] \in {"ok", "[ERROR]"} => IsStage(stdout[i - 1])
    /\ pc = "except" => exc # "None" /\ IsStage(Last(stdout))
    /\ pc # "except" => exc = "None"
    /\ \A i \in 1..Len(stdout) :
          stdout[i] = "[ERROR]" => i = Len(stdout) /\ pc = "done"
    /\ pc = "done" => Last(stdout) \in {"ok", "[ERROR]"}
    /\ pc \notin {"except", "done"} =>
          /\ Len(Started) < Len(StageOrder)
          /\ pc = StageOrder[Len(Started) + 1]
    /\ Written => pc = "done" /\ Started = StageOrder /\ Last(stdout) = "ok"

\* C4, witness: handle_missing_values raised after load_data returned; main
\* printed the error and returned, and no later stage ran nor wrote the file
C4_Witness ==
    /\ pc = "done"
    /\ exc = "None"
    /\ stdout = <<"load_data", "ok", "handle_missing_values", "[ERROR]">>
    /\ ~Written

\* no absent cell remains once Age, Embarked and Cabin have been dealt with
ResidualFree(t) ==
    \A c \in columns(t) \ {"Cabin"} : \A i \in 1..nrows(t) :
        isna(t.data[c][i]) => c \in {"Age", "Embarked"} /\ HasPresent(t.data[c])

RawFrame == read_csv(fs.files[RAW_DATA_PATH])

Output == fs.files[OUTPUT_PATH]

\* C2: no stage adds a row; feature_engineering, encoding and scaling return
\* as many rows as they are given, handle_missing_values as many when no
\* absent cell remains after its imputation steps, and then the output file
\* has as many rows as the raw file
C2_RowCount ==
    /\ Returned("feature_engineering") =>
          /\ nrows(df) <= nrows(arg)
          /\ ResidualFree(arg) => nrows(df) = nrows(arg)
    /\ Returned("encoding") \/ Returned("scaling") \/ Returned("save_data") =>
          nrows(df) = nrows(arg)
    /\ Written =>
          /\ records(Output) <= nrows(RawFrame)
          /\ ResidualFree(RawFrame) => records(Output) = nrows(RawFrame)

\* C2, witness: a run that wrote both rows of a raw file in which Age,
\* Embarked and Cabin had absent cells
C2_Witness ==
    /\ Written
    /\ columns(RawFrame) = AlwaysColumns \cup OptionalColumns
    /\ isna(RawFrame.data["Cabin"][1])
    /\ isna(RawFrame.data["Age"][2])
    /\ isna(RawFrame.data["Embarked"][2])
    /\ records(Output) = 2

\* a run that dropped the one row whose Fare was absent
C2_Drop ==
    /\ Written
    /\ nrows(RawFrame) = 2
    /\ records(Output) = 1

\* the columns feature_engineering derives from the columns cs
Derived(cs) ==
    (IF "Name" \in cs THEN {"Title"} ELSE {})
        \cup (IF {"SibSp", "Parch"} \subseteq cs THEN {"FamilySize"} ELSE {})

\* C7: handle_missing_values removes only Cabin, and adds hasCabin when
\* Cabin was there; feature_engineering removes those of PassengerId, Name,
\* Ticket that are there, and adds Title iff Name was there and FamilySize
\* iff SibSp and Parch both were; encoding and scaling keep the columns; so
\* the output has the input's columns less Cabin, PassengerId, Name, Ticket,
\* plus the derived ones
C7_Columns ==
    /\ Returned("feature_engineering") =>
          columns(df) = (columns(arg) \ {"Cabin"})
                           \cup (IF "Cabin" \in columns(arg) THEN {"hasCabin"} ELSE {})
    /\ Returned("encoding") =>
          columns(df) = (columns(arg) \ {"PassengerId", "Name", "Ticket"})
                           \cup Derived(columns(arg))
    /\ Returned("scaling") \/ Returned("save_data") => columns(df) = columns(arg)
    /\ Written =>
          DOMAIN Output =
              (columns(RawFrame) \ {"Cabin", "PassengerId", "Name", "Ticket"})
                 \cup Derived(columns(RawFrame))
                 \cup (IF "Cabin" \in columns(RawFrame) THEN {"hasCabin"} ELSE {})

\* C7, witness: of PassengerId, Name, Ticket only Ticket was there, and of
\* SibSp, Parch only SibSp
C7_Witness ==
    /\ Written
    /\ columns(RawFrame) = AlwaysColumns \cup {"Ticket", "SibSp", "Cabin", "Age"}
    /\ DOMAIN Output = AlwaysColumns \cup {"SibSp", "hasCabin", "Age"}
    /\ records(Output) > 0

====
